---- MODULE Spec2Model ----
(***************************************************************************)
(* Model of the executable-hashing CLI: src/main.py (main),                *)
(* src/logic.py (computeFileHash, buildFileHashRows, buildHashRows,        *)
(* checkHashes), src/util.py (filePathForOutput, getHasher, makeResultRow) *)
(* and src/custom_io.py (iterateExeFiles, iterateTextFiles, emitters).     *)
(*                                                                         *)
(* Strings are sequences of one-character strings.  A pathlib.Path is the  *)
(* sequence of its parts, each part a string.  pathlib's behaviour depends *)
(* on the host flavour (custom_io.py:26-27): on "posix" pattern matching   *)
(* and path comparison are case sensitive, on "windows" both fold case and the  *)
(* separator is a backslash.                                               *)
(***************************************************************************)
EXTENDS Integers, Sequences, FiniteSets, TLC

VARIABLES
    host,          \* pathlib flavour of the machine: "posix" or "windows"
    arguments,     \* argparse.Namespace of main
    tree,          \* the files under root: Path -> file data
    pc,            \* position of main, or of a function called directly
    exeQueue,      \* sorted(io.iterateExeFiles(...)) not yet visited
    txtQueue,      \* sorted(io.iterateTextFiles(...)) not yet visited
    exeSorted,     \* the list sorted() returned in buildFileHashRows
    txtSorted,     \* the list sorted() returned in buildHashRows
    hashed,        \* the exe paths whose row was appended, in order
    loaded,        \* the txt paths whose content was stored, in order
    failed,        \* the paths whose try block raised
    skipped,       \* the paths for which path.is_file() was false
    fileHashRows,  \* rows of buildFileHashRows (main.py:94)
    hashRows,      \* dict of buildHashRows (main.py:96)
    stderr,        \* messages given to io.emitError
    stdout,        \* what main printed
    csvFile,       \* the CSV report, or Absent
    jsonFile,      \* the JSON report, or Absent
    exitCode,      \* <<return value of main>>, or None
    rowIn,         \* arguments of a direct makeResultRow call
    rowOut,        \* <<its result>>, or None
    hashIn,        \* arguments of a direct computeFileHash call, with the
                   \* bytes the file at path holds
    filePos,       \* <<position of the open file>>, or None when not open
    hasher,        \* <<the hasher of computeFileHash>>, or None
    chunks,        \* the chunks given to hasher.update, in order
    digests        \* per finished computeFileHash call, in order: the
                   \* chunkSize it was given and the hex digest it returned

vars == <<host, arguments, tree, pc, exeQueue, txtQueue, exeSorted, txtSorted,
          hashed, loaded, failed, skipped, fileHashRows, hashRows, stderr,
          stdout, csvFile, jsonFile, exitCode, rowIn, rowOut,
          hashIn, filePos, hasher, chunks, digests>>

\* the state of a direct computeFileHash call
hashVars == <<hashIn, filePos, hasher, chunks, digests>>

\* a report file that was not written
Absent == [exists |-> FALSE]

\* nothing returned yet: a return value v is <<v>>
None == <<>>

----------------------------------------------------------------------------
(* Bounds *)

\* most files present under root in one run
MaxFiles == 3
\* longest filePath handed directly to makeResultRow
MaxLen == 4

----------------------------------------------------------------------------
(* Python str: code points, comparison, concatenation *)

\* ord(c) for the characters the model uses
Ord(c) ==
    CASE c = "-" -> 45 [] c = "." -> 46 [] c = "/" -> 47
      [] c = "0" -> 48 [] c = "1" -> 49 [] c = "2" -> 50 [] c = "3" -> 51
      [] c = "4" -> 52 [] c = "5" -> 53 [] c = "6" -> 54 [] c = "7" -> 55
      [] c = "8" -> 56 [] c = "9" -> 57
      [] c = "E" -> 69 [] c = "T" -> 84 [] c = "X" -> 88
      [] c = "\\" -> 92
      [] c = "a" -> 97 [] c = "b" -> 98 [] c = "e" -> 101 [] c = "r" -> 114
      [] c = "t" -> 116 [] c = "x" -> 120

\* str.lower() on one character
LowerChar(c) ==
    CASE c = "E" -> "e" [] c = "T" -> "t" [] c = "X" -> "x" [] OTHER -> c

Lower(s) == [i \in 1..Len(s) |-> LowerChar(s[i])]

\* s < t on Python strings: lexicographic by code point
RECURSIVE StrLess(_, _)
StrLess(s, t) ==
    IF t = <<>> THEN FALSE
    ELSE IF s = <<>> THEN TRUE
    ELSE IF Ord(Head(s)) # Ord(Head(t)) THEN Ord(Head(s)) < Ord(Head(t))
    ELSE StrLess(Tail(s), Tail(t))

\* a < b on Python lists of strings
RECURSIVE ListLess(_, _)
ListLess(a, b) ==
    IF b = <<>> THEN FALSE
    ELSE IF a = <<>> THEN TRUE
    ELSE IF Head(a) # Head(b) THEN StrLess(Head(a), Head(b))
    ELSE ListLess(Tail(a), Tail(b))

\* sep.join(parts)
RECURSIVE Join(_, _)
Join(parts, sep) ==
    IF parts = <<>> THEN <<>>
    ELSE IF Len(parts) = 1 THEN parts[1]
    ELSE parts[1] \o <<sep>> \o Join(Tail(parts), sep)

\* s.rfind("."), counted from 1: scan from position i down to the left;
\* 0 when there is no "."
RECURSIVE RFindDot(_, _)
RFindDot(s, i) ==
    IF i = 0 THEN 0
    ELSE IF s[i] = "." THEN i
    ELSE RFindDot(s, i - 1)

\* s.find("."), counted from 1: scan from position i to the right
RECURSIVE FindDot(_, _)
FindDot(s, i) ==
    IF i > Len(s) THEN 0
    ELSE IF s[i] = "." THEN i
    ELSE FindDot(s, i + 1)

\* s.split(".", 1)[0]: cut at the first "."
SplitDotFirst(s) ==
    IF FindDot(s, 1) = 0 THEN s ELSE SubSeq(s, 1, FindDot(s, 1) - 1)

\* s.rsplit(".", 1)[0]: cut at the last "."
RSplitDotFirst(s) ==
    IF RFindDot(s, Len(s)) = 0 THEN s
    ELSE SubSeq(s, 1, RFindDot(s, Len(s)) - 1)

\* the decimal digits of n >= 0
RECURSIVE Digits(_)
Digits(n) ==
    LET d == <<"0", "1", "2", "3", "4", "5", "6", "7", "8", "9">>[(n % 10) + 1]
    IN  IF n < 10 THEN <<d>> ELSE Digits(n \div 10) \o <<d>>

\* str(n) of a Python int, as a str object
PyStr(n) ==
    [type |-> "str",
     value |-> IF n < 0 THEN <<"-">> \o Digits(0 - n) ELSE Digits(n)]

\* a Python int object
PyInt(n) == [type |-> "int", value |-> n]

----------------------------------------------------------------------------
(* pathlib: paths, ordering, globbing *)

Flavours == {"posix", "windows"}

\* os.sep of the flavour
Sep(flavour) == IF flavour = "windows" THEN "\\" ELSE "/"

\* the parts of the normalized root directory (main.py:85), below the anchor
RootParts == << <<"r">> >>

NameAExe == <<"a", ".", "e", "x", "e">>
NameAEXE == <<"a", ".", "E", "X", "E">>
NameXExe == <<"x", ".", "e", "x", "e">>
NameATxt == <<"a", ".", "t", "x", "t">>
NameATXT == <<"a", ".", "T", "X", "T">>
NameXTxt == <<"x", ".", "t", "x", "t">>
DirA == <<"a">>

\* the paths that may exist under root: three executables and three text
\* files, one of each in the subdirectory "a"
Universe ==
    { RootParts \o <<NameAExe>>, RootParts \o <<NameAEXE>>,
      RootParts \o <<DirA, NameXExe>>,
      RootParts \o <<NameATxt>>, RootParts \o <<NameATXT>>,
      RootParts \o <<DirA, NameXTxt>> }

\* str(path): the anchor, then the parts joined by the separator
PathStr(path, flavour) == <<Sep(flavour)>> \o Join(path, Sep(flavour))

\* the parts pathlib compares: case-folded on "windows" (PurePath._cparts)
CaseFoldParts(path, flavour) ==
    IF flavour = "windows" THEN [i \in 1..Len(path) |-> Lower(path[i])] ELSE path

\* Path.__lt__ as sorted() uses it
PathLess(p, q, flavour) ==
    ListLess(CaseFoldParts(p, flavour), CaseFoldParts(q, flavour))

\* list.insert of x before the first element greater than x
RECURSIVE InsertSorted(_, _, _)
InsertSorted(x, s, flavour) ==
    IF s = <<>> THEN <<x>>
    ELSE IF PathLess(x, Head(s), flavour) THEN <<x>> \o s
    ELSE <<Head(s)>> \o InsertSorted(x, Tail(s), flavour)

\* a list in the order it was yielded, not sorted
Unsorted(s, flavour) == s

\* sorted(iterable) on Path objects: a stable sort by Path.__lt__
RECURSIVE Sorted(_, _)
Sorted(s, flavour) ==
    IF s = <<>> THEN <<>>
    ELSE InsertSorted(s[Len(s)], Sorted(SubSeq(s, 1, Len(s) - 1), flavour),
                      flavour)

\* a match that folds letter case on every host
MatchesPatternFoldingCase(name, suffix, flavour) ==
    LET n == Lower(name)
    IN  /\ Len(n) >= Len(suffix)
        /\ SubSeq(n, Len(n) - Len(suffix) + 1, Len(n)) = suffix

\* fnmatch of a file name against "*" + suffix, case-folded on "windows"
MatchesPattern(name, suffix, flavour) ==
    LET n == IF flavour = "windows" THEN Lower(name) ELSE name
    IN  /\ Len(n) >= Len(suffix)
        /\ SubSeq(n, Len(n) - Len(suffix) + 1, Len(n)) = suffix

\* root.rglob(pattern) when recursive, root.glob(pattern) otherwise: the set
\* of matching paths under root (their order is the file system's)
Glob(paths, suffix, recursive, flavour) ==
    { p \in paths :
        /\ Len(p) > Len(RootParts)
        /\ SubSeq(p, 1, Len(RootParts)) = RootParts
        /\ recursive \/ Len(p) = Len(RootParts) + 1
        /\ MatchesPattern(p[Len(p)], suffix, flavour) }

ExeSuffix == <<".", "e", "x", "e">>
TxtSuffix == <<".", "t", "x", "t">>

\* io.iterateExeFiles(root, recursive)
iterateExeFiles(paths, recursive, flavour) ==
    Glob(paths, ExeSuffix, recursive, flavour)

\* io.iterateTextFiles(root, recursive)
iterateTextFiles(paths, recursive, flavour) ==
    Glob(paths, TxtSuffix, recursive, flavour)

\* the orders in which an iterator can yield the elements of a set
Orders(S) ==
    { s \in [1..Cardinality(S) -> S] : \A x \in S : \E i \in DOMAIN s : s[i] = x }

----------------------------------------------------------------------------
(* util.py *)

\* util.safeRelativePath: path.relative_to(root), str(path) on ValueError
safeRelativePath(path, root, flavour) ==
    IF Len(path) >= Len(root) /\ SubSeq(path, 1, Len(root)) = root
    THEN Join(SubSeq(path, Len(root) + 1, Len(path)), Sep(flavour))
    ELSE PathStr(path, flavour)

\* util.filePathForOutput
filePathForOutput(path, root, absolutePaths, flavour) ==
    IF absolutePaths THEN PathStr(path, flavour)
    ELSE safeRelativePath(path, root, flavour)

\* the algorithm names hashlib.new accepts
SupportedAlgorithms == {"sha256"}

\* a check that lets every algorithm name through
getHasherRaisesNever(algorithm) == FALSE

\* util.getHasher raises ValueError
getHasherRaises(algorithm) == algorithm \notin SupportedAlgorithms

\* util.getHasher: a fresh hasher, which has been fed nothing
getHasher(algorithm) == [algorithm |-> algorithm, fed |-> <<>>]

\* hasher.update(chunk)
HasherUpdate(h, chunk) == [h EXCEPT !.fed = @ \o chunk]

\* two hex digits per byte; the model's digest is the hex form of what was
\* fed, which stands for a collision-free digest
RECURSIVE HexOf(_)
HexOf(bytes) ==
    IF bytes = <<>> THEN <<>>
    ELSE <<"0", Digits(Head(bytes))[1]>> \o HexOf(Tail(bytes))

\* hasher.hexdigest()
HexDigest(h) == <<"a">> \o HexOf(h.fed)

\* a row whose filename is cut at the first "." of filePath
makeResultRowFirstDot(hashValue, algorithm, size, epochTime, filePath) ==
    [hash |-> hashValue, algorithm |-> algorithm, size |-> PyStr(size),
     modified_time |-> PyStr(epochTime), file_path |-> filePath,
     filename |-> SplitDotFirst(filePath)]

\* a row that keeps size and epochTime as the ints it was given
makeResultRowIntFields(hashValue, algorithm, size, epochTime, filePath) ==
    [hash |-> hashValue, algorithm |-> algorithm, size |-> PyInt(size),
     modified_time |-> PyInt(epochTime), file_path |-> filePath,
     filename |-> RSplitDotFirst(filePath)]

\* util.makeResultRow
makeResultRow(hashValue, algorithm, size, epochTime, filePath) ==
    [hash |-> hashValue, algorithm |-> algorithm, size |-> PyStr(size),
     modified_time |-> PyStr(epochTime), file_path |-> filePath,
     filename |-> RSplitDotFirst(filePath)]

----------------------------------------------------------------------------
(* logic.py *)

\* default chunkSize of computeFileHash: 1024*1024
DefaultChunkSize == 1048576

\* a read that loses the bytes left at the end of the file when they are
\* fewer than size
FileReadDropsShortTail(content, pos, size) ==
    IF pos + size > Len(content) THEN <<>>
    ELSE SubSeq(content, pos + 1, pos + size)

\* file.read(size) on a file opened "rb" whose position is pos: the next size
\* bytes, fewer when the file ends first, b"" at end-of-stream
FileRead(content, pos, size) ==
    LET last == IF pos + size > Len(content) THEN Len(content)
                ELSE pos + size
    IN  SubSeq(content, pos + 1, last)

\* the while loop of computeFileHash: read chunkSize bytes from position pos,
\* stop on the empty chunk, feed every other chunk to the hasher
RECURSIVE ReadLoop(_, _, _, _)
ReadLoop(content, pos, chunkSize, h) ==
    LET chunk == FileRead(content, pos, chunkSize)
    IN  IF chunk = <<>> THEN h
        ELSE ReadLoop(content, pos + Len(chunk), chunkSize,
                      HasherUpdate(h, chunk))

\* logic.computeFileHash on a file holding content
computeFileHash(content, algorithm, chunkSize) ==
    HexDigest(ReadLoop(content, 0, chunkSize, getHasher(algorithm)))

\* a comparison that reports every known file as matching
checkHashesAlwaysMatch(rows, knownHashes) ==
    [i \in 1..Len(rows) |->
        [status |-> IF rows[i].filename \in DOMAIN knownHashes
                    THEN "MATCH" ELSE "UNKNOWN"] @@ rows[i]]

\* logic.checkHashes: the rows with row["status"] set
checkHashes(rows, knownHashes) ==
    [i \in 1..Len(rows) |->
        LET filename == rows[i].filename
            fileHash == rows[i].hash
        IN  [status |-> IF filename \in DOMAIN knownHashes
                        THEN IF knownHashes[filename] = fileHash
                             THEN "MATCH" ELSE "MISMATCH"
                        ELSE "UNKNOWN"] @@ rows[i]]

\* d[key] = value on a dict
DictSet(d, key, value) ==
    [k \in DOMAIN d \cup {key} |-> IF k = key THEN value ELSE d[k]]

----------------------------------------------------------------------------
(* The file system and the command line *)

\* int(x) of a float given in half seconds: truncation toward zero
IntOfHalves(h) == IF h >= 0 THEN h \div 2 ELSE 0 - ((0 - h) \div 2)

\* what the executables hold: their bytes and st_mtime in half seconds;
\* a.exe was last modified before 1970
ExeData ==
    { [bytes |-> <<0>>, mtime |-> 0 - 3],
      [bytes |-> <<0, 1>>, mtime |-> 25] }

\* what a reference file can hold: the sha256 digest of either executable
TxtData ==
    { [text |-> computeFileHash(d.bytes, "sha256", DefaultChunkSize)] :
        d \in ExeData }

IsExePath(p) == Lower(p[Len(p)]) = NameAExe \/ Lower(p[Len(p)]) = NameXExe

\* a.exe holds the first content, the other executables the second; a
\* reference file holds either digest
DataFor(p) ==
    IF ~IsExePath(p) THEN TxtData
    ELSE IF p[Len(p)] = NameAExe THEN { d \in ExeData : Len(d.bytes) = 1 }
    ELSE { d \in ExeData : Len(d.bytes) = 2 }

Trees ==
    UNION { { f \in [S -> ExeData \cup TxtData] : \A p \in S : f[p] \in DataFor(p) } :
            S \in { T \in SUBSET Universe : Cardinality(T) <= MaxFiles } }

Algorithms == {"sha256", "sha999"}

Namespaces ==
    [algo : Algorithms, recursive : BOOLEAN, csv : BOOLEAN, json : BOOLEAN,
     absolute_paths : BOOLEAN, compare : BOOLEAN]

Idle ==
    /\ exeQueue = <<>> /\ txtQueue = <<>>
    /\ exeSorted = <<>> /\ txtSorted = <<>>
    /\ hashed = <<>> /\ loaded = <<>> /\ failed = {} /\ skipped = {}
    /\ fileHashRows = <<>> /\ hashRows = <<>>
    /\ stderr = <<>> /\ stdout = <<>>
    /\ csvFile = Absent /\ jsonFile = Absent /\ exitCode = None

\* computeFileHash is not being called directly
NoHashCall ==
    /\ hashIn = None /\ filePos = None /\ hasher = None
    /\ chunks = <<>> /\ digests = <<>>

Init ==
    /\ host \in [flavour : Flavours, rootIsDir : BOOLEAN]
    /\ arguments \in Namespaces
    /\ tree \in Trees
    /\ pc = "start"
    /\ Idle
    /\ rowIn = None /\ rowOut = None
    /\ NoHashCall

----------------------------------------------------------------------------
(* main.py: the run *)

Flavour == host.flavour

\* main.py:84-93: the root and the algorithm are validated before any scan
Validate ==
    /\ pc = "start"
    /\ IF ~host.rootIsDir
       THEN /\ stderr' = Append(stderr, [kind |-> "not_a_directory"])
            /\ exitCode' = <<2>>
            /\ pc' = "done"
       ELSE IF getHasherRaises(arguments.algo)
       THEN /\ stderr' = Append(stderr, [kind |-> "unsupported_algorithm",
                                         algorithm |-> arguments.algo])
            /\ exitCode' = <<2>>
            /\ pc' = "done"
       ELSE /\ pc' = "buildFileHashRows"
            /\ UNCHANGED <<stderr, exitCode>>
    /\ UNCHANGED <<host, arguments, tree, exeQueue, txtQueue, exeSorted,
                   txtSorted, hashed, loaded, failed, skipped, fileHashRows, hashRows,
                   stdout, csvFile, jsonFile, rowIn, rowOut, hashVars>>

\* logic.py:74-75: rows = list(); sorted(io.iterateExeFiles(root, recursive)),
\* the iterator yielding the matches in an order of the file system's choice
ListExeFiles ==
    /\ pc = "buildFileHashRows"
    /\ \E yielded \in Orders(iterateExeFiles(DOMAIN tree, arguments.recursive, Flavour)) :
          /\ exeSorted' = Sorted(yielded, Flavour)
          /\ exeQueue' = Sorted(yielded, Flavour)
    /\ fileHashRows' = <<>>
    /\ pc' = "hashLoop"
    /\ UNCHANGED <<host, arguments, tree, txtQueue, txtSorted, hashed, loaded,
                   failed, skipped, hashRows, stderr, stdout, csvFile, jsonFile,
                   exitCode, rowIn, rowOut, hashVars>>

\* an except clause that gives up on the files still to visit
AfterErrorAbort(queue) == <<>>

\* logic.py:88-89 and 120-121: the except clause reports the error and the
\* for loop goes on with the next path
AfterError(queue) == Tail(queue)

\* logic.py:76-89: one iteration of the loop of buildFileHashRows.  The file
\* system decides whether path.is_file() holds and whether open, read or
\* stat raise; computeFileHash itself raises on an unsupported algorithm
HashFile ==
    /\ pc = "hashLoop"
    /\ exeQueue # <<>>
    /\ LET path       == Head(exeQueue)
           pathString == filePathForOutput(path, RootParts,
                                           arguments.absolute_paths, Flavour)
       IN  \E outcome \in {"not_a_file", "raises"} \cup
                          (IF getHasherRaises(arguments.algo) THEN {} ELSE {"ok"}) :
              CASE outcome = "not_a_file" ->
                     /\ skipped' = skipped \cup {path}
                     /\ exeQueue' = Tail(exeQueue)
                     /\ UNCHANGED <<fileHashRows, hashed, failed, stderr>>
                [] outcome = "raises" ->
                     /\ stderr' = Append(stderr, [kind |-> "hashing",
                                                  path |-> pathString])
                     /\ failed' = failed \cup {path}
                     /\ exeQueue' = AfterError(exeQueue)
                     /\ UNCHANGED <<fileHashRows, hashed, skipped>>
                [] outcome = "ok" ->
                     LET hashValue == computeFileHash(tree[path].bytes,
                                          arguments.algo, DefaultChunkSize)
                         row == makeResultRow(hashValue, arguments.algo,
                                          Len(tree[path].bytes),
                                          IntOfHalves(tree[path].mtime),
                                          pathString)
                     IN  /\ fileHashRows' = Append(fileHashRows, row)
                         /\ hashed' = Append(hashed, path)
                         /\ exeQueue' = Tail(exeQueue)
                         /\ UNCHANGED <<failed, skipped, stderr>>
    /\ UNCHANGED <<host, arguments, tree, pc, txtQueue, exeSorted, txtSorted,
                   loaded, hashRows, stdout, csvFile, jsonFile, exitCode,
                   rowIn, rowOut, hashVars>>

\* logic.py:90 and 111-112: buildFileHashRows returns; buildHashRows starts
\* with rows = dict() and sorted(io.iterateTextFiles(root, recursive))
ListTextFiles ==
    /\ pc = "hashLoop"
    /\ exeQueue = <<>>
    /\ \E yielded \in Orders(iterateTextFiles(DOMAIN tree, arguments.recursive, Flavour)) :
          /\ txtSorted' = Sorted(yielded, Flavour)
          /\ txtQueue' = Sorted(yielded, Flavour)
    /\ hashRows' = <<>>
    /\ pc' = "loadLoop"
    /\ UNCHANGED <<host, arguments, tree, exeQueue, exeSorted, hashed, loaded,
                   failed, skipped, fileHashRows, stderr, stdout, csvFile, jsonFile,
                   exitCode, rowIn, rowOut, hashVars>>

\* a loader that uses the whole path string as the key
StoreReferenceWholePath(rows, pathString, content) ==
    DictSet(rows, pathString, content)

\* a loader that keeps the first content stored under a key
StoreReferenceKeepFirst(rows, pathString, content) ==
    IF RSplitDotFirst(pathString) \in DOMAIN rows THEN rows
    ELSE DictSet(rows, RSplitDotFirst(pathString), content)

\* logic.py:119: rows[pathString.rsplit(".", 1)[0]] = content
StoreReference(rows, pathString, content) ==
    DictSet(rows, RSplitDotFirst(pathString), content)

\* logic.py:113-121: one iteration of the loop of buildHashRows
LoadReference ==
    /\ pc = "loadLoop"
    /\ txtQueue # <<>>
    /\ LET path       == Head(txtQueue)
           pathString == filePathForOutput(path, RootParts,
                                           arguments.absolute_paths, Flavour)
       IN  \E outcome \in {"not_a_file", "raises", "ok"} :
              CASE outcome = "not_a_file" ->
                     /\ skipped' = skipped \cup {path}
                     /\ txtQueue' = Tail(txtQueue)
                     /\ UNCHANGED <<hashRows, loaded, failed, stderr>>
                [] outcome = "raises" ->
                     /\ stderr' = Append(stderr, [kind |-> "reading",
                                                  path |-> pathString])
                     /\ failed' = failed \cup {path}
                     /\ txtQueue' = AfterError(txtQueue)
                     /\ UNCHANGED <<hashRows, loaded, skipped>>
                [] outcome = "ok" ->
                     /\ hashRows' = StoreReference(hashRows, pathString,
                                                   tree[path].text)
                     /\ loaded' = Append(loaded, path)
                     /\ txtQueue' = Tail(txtQueue)
                     /\ UNCHANGED <<failed, skipped, stderr>>
    /\ UNCHANGED <<host, arguments, tree, pc, exeQueue, exeSorted, txtSorted,
                   hashed, fileHashRows, stdout, csvFile, jsonFile, exitCode,
                   rowIn, rowOut, hashVars>>

\* io.emitConsoleLine: what is printed for one row
emitConsoleLine(row, compare) ==
    IF compare /\ "status" \in DOMAIN row
    THEN [kind |-> "row", file_path |-> row.file_path, hash |-> row.hash,
          status |-> row.status]
    ELSE [kind |-> "row", file_path |-> row.file_path, hash |-> row.hash]

\* a header that never has the status column
CsvFieldnamesNoStatus(compare) ==
    <<"hash", "algorithm", "size", "modified_time", "file_path", "filename">>

\* custom_io.py:141-158: the header of the CSV report
CsvFieldnames(compare) ==
    IF compare
    THEN <<"hash", "algorithm", "size", "modified_time", "file_path",
           "filename", "status">>
    ELSE <<"hash", "algorithm", "size", "modified_time", "file_path",
           "filename">>

Range(s) == { s[i] : i \in DOMAIN s }

\* the text csv writes for a value: str(value) unless it is a str already
CsvCell(row, k) ==
    IF k \in {"size", "modified_time"}
    THEN IF row[k].type = "int" THEN PyStr(row[k].value).value ELSE row[k].value
    ELSE row[k]

\* csv.DictWriter raises ValueError on a row with a key outside fieldnames
writeCSVRaises(rows, compare) ==
    \E i \in DOMAIN rows : ~(DOMAIN rows[i] \subseteq Range(CsvFieldnames(compare)))

\* io.writeCSV: the header and one record per row
writeCSV(rows, compare) ==
    [exists |-> TRUE, fieldnames |-> CsvFieldnames(compare),
     records |-> [i \in DOMAIN rows |->
                     [k \in Range(CsvFieldnames(compare)) \cap DOMAIN rows[i] |->
                         CsvCell(rows[i], k)]]]

\* json.dump of one value: a str becomes a JSON string, an int a number
JsonValue(row, k) ==
    IF k \in {"size", "modified_time"}
    THEN IF row[k].type = "int"
         THEN [json |-> "number", value |-> row[k].value]
         ELSE [json |-> "string", value |-> row[k].value]
    ELSE [json |-> "string", value |-> row[k]]

\* io.writeJSON: an array of objects mirroring the rows
writeJSON(rows) ==
    [exists |-> TRUE,
     array |-> [i \in DOMAIN rows |->
                   [k \in DOMAIN rows[i] |-> JsonValue(rows[i], k)]]]

\* a run that goes on to the reports with nothing to report
ReturnsEarlyNever(rows) == FALSE

\* main.py:104-106: if not fileHashRows: print(...); return 0
ReturnsEarly(rows) == rows = <<>>

\* main.py:98-113: buildHashRows has returned; the comparison, the console
\* lines and the reports
Finish ==
    /\ pc = "loadLoop"
    /\ txtQueue = <<>>
    /\ LET rows == IF arguments.compare
                   THEN checkHashes(fileHashRows, hashRows)
                   ELSE fileHashRows
           printed == [i \in DOMAIN rows |->
                          emitConsoleLine(rows[i], arguments.compare)]
       IN  /\ fileHashRows' = rows
           /\ IF ReturnsEarly(rows)
              THEN /\ stdout' = stdout \o printed \o
                                <<[kind |-> "no_exe_files_found"]>>
                   /\ exitCode' = <<0>>
                   /\ pc' = "done"
                   /\ UNCHANGED <<csvFile, jsonFile>>
              ELSE IF arguments.csv /\ writeCSVRaises(rows, arguments.compare)
              THEN /\ stdout' = stdout \o printed
                   /\ csvFile' = [exists |-> TRUE,
                                  fieldnames |-> CsvFieldnames(arguments.compare),
                                  records |-> <<>>]
                   /\ exitCode' = <<1>>
                   /\ pc' = "done"
                   /\ UNCHANGED jsonFile
              ELSE /\ stdout' = stdout \o printed
                   /\ csvFile' = IF arguments.csv
                                 THEN writeCSV(rows, arguments.compare)
                                 ELSE csvFile
                   /\ jsonFile' = IF arguments.json THEN writeJSON(rows)
                                  ELSE jsonFile
                   /\ exitCode' = <<0>>
                   /\ pc' = "done"
    /\ UNCHANGED <<host, arguments, tree, exeQueue, txtQueue, exeSorted,
                   txtSorted, hashed, loaded, failed, skipped, hashRows, stderr,
                   rowIn, rowOut, hashVars>>

Next ==
    \/ Validate
    \/ ListExeFiles
    \/ HashFile
    \/ ListTextFiles
    \/ LoadReference
    \/ Finish

Spec == Init /\ [][Next]_vars

----------------------------------------------------------------------------
(* util.makeResultRow called directly, on every short filePath *)

PathChars == {"a", ".", "/"}

FilePaths == UNION { [1..n -> PathChars] : n \in 0..MaxLen }

RowInputs ==
    [hashValue : {<<"a", "0", "0">>, <<"a", "0", "1">>},
     algorithm : {"sha256", "sha512"},
     size : {0, 12},
     epochTime : {0 - 1, 12},
     filePath : FilePaths]

InitRow ==
    /\ host = [flavour |-> "posix", rootIsDir |-> TRUE]
    /\ arguments = [algo |-> "sha256", recursive |-> FALSE, csv |-> FALSE,
                    json |-> FALSE, absolute_paths |-> FALSE, compare |-> FALSE]
    /\ tree = <<>>
    /\ pc = "idle"
    /\ Idle
    /\ rowIn \in RowInputs
    /\ rowOut = None
    /\ NoHashCall

\* row = util.makeResultRow(hashValue, algorithm=..., size=..., epochTime=...,
\* filePath=...)
MakeRow ==
    /\ rowOut = None
    /\ rowOut' = <<makeResultRow(rowIn.hashValue, rowIn.algorithm, rowIn.size,
                                 rowIn.epochTime, rowIn.filePath)>>
    /\ UNCHANGED <<host, arguments, tree, pc, exeQueue, txtQueue, exeSorted,
                   txtSorted, hashed, loaded, failed, skipped, fileHashRows, hashRows,
                   stderr, stdout, csvFile, jsonFile, exitCode, rowIn, hashVars>>

NextRow == MakeRow

SpecRow == InitRow /\ [][NextRow]_vars

----------------------------------------------------------------------------
(* logic.computeFileHash called directly, statement by statement, twice on *)
(* the same unchanged file                                                 *)

\* longest file content
MaxBytes == 4
\* largest small chunkSize
MaxChunk == 3
\* how often the same file is hashed
Calls == 2

Bytes == {0, 1}

Contents == UNION { [1..n -> Bytes] : n \in 0..MaxBytes }

\* chunkSize arguments: the small ones cut the files into several chunks,
\* the default is larger than every file
ChunkSizes == 1..MaxChunk \cup {DefaultChunkSize}

HashInputs ==
    [content : Contents, algorithm : Algorithms, chunkSize : ChunkSizes]

InitHash ==
    /\ host = [flavour |-> "posix", rootIsDir |-> TRUE]
    /\ arguments = [algo |-> "sha256", recursive |-> FALSE, csv |-> FALSE,
                    json |-> FALSE, absolute_paths |-> FALSE, compare |-> FALSE]
    /\ tree = <<>>
    /\ pc = "call"
    /\ Idle
    /\ rowIn = None /\ rowOut = None
    /\ hashIn \in HashInputs
    /\ filePos = None /\ hasher = None
    /\ chunks = <<>> /\ digests = <<>>

mainVars == <<host, arguments, tree, exeQueue, txtQueue, exeSorted, txtSorted,
              hashed, loaded, failed, skipped, fileHashRows, hashRows, stderr,
              stdout, csvFile, jsonFile, exitCode, rowIn, rowOut>>

\* hasher = util.getHasher(algorithm) raises ValueError
HasherRaises ==
    /\ pc = "call"
    /\ getHasherRaises(hashIn.algorithm)
    /\ pc' = "raised"
    /\ UNCHANGED <<mainVars, hashVars>>

\* hasher = util.getHasher(algorithm); with path.open("rb") as file:
OpenFile ==
    /\ pc = "call"
    /\ ~getHasherRaises(hashIn.algorithm)
    /\ hasher' = <<getHasher(hashIn.algorithm)>>
    /\ filePos' = <<0>>
    /\ chunks' = <<>>
    /\ pc' = "read"
    /\ UNCHANGED <<mainVars, hashIn, digests>>

\* chunk = file.read(chunkSize); a chunk that is not empty goes to
\* hasher.update(chunk) and the loop goes round
ReadChunk ==
    /\ pc = "read"
    /\ LET chunk == FileRead(hashIn.content, filePos[1], hashIn.chunkSize)
       IN  /\ chunk # <<>>
           /\ filePos' = <<filePos[1] + Len(chunk)>>
           /\ hasher' = <<HasherUpdate(hasher[1], chunk)>>
           /\ chunks' = Append(chunks, chunk)
    /\ UNCHANGED <<mainVars, pc, hashIn, digests>>

\* chunk = file.read(chunkSize); if not chunk: break; the file is closed and
\* hasher.hexdigest() returned
EndOfStream ==
    /\ pc = "read"
    /\ FileRead(hashIn.content, filePos[1], hashIn.chunkSize) = <<>>
    /\ filePos' = None
    /\ digests' = Append(digests, [chunkSize |-> hashIn.chunkSize,
                                   hexdigest |-> HexDigest(hasher[1])])
    /\ pc' = "returned"
    /\ UNCHANGED <<mainVars, hashIn, hasher, chunks>>

\* the same file, unchanged, is hashed again with the same algorithm and
\* any chunkSize
HashAgain ==
    /\ pc = "returned"
    /\ Len(digests) < Calls
    /\ \E chunkSize \in ChunkSizes :
          hashIn' = [hashIn EXCEPT !.chunkSize = chunkSize]
    /\ pc' = "call"
    /\ UNCHANGED <<mainVars, filePos, hasher, chunks, digests>>

NextHash ==
    \/ HasherRaises
    \/ OpenFile
    \/ ReadChunk
    \/ EndOfStream
    \/ HashAgain

\* a call that has started runs on: nothing in computeFileHash waits
SpecHash == InitHash /\ [][NextHash]_vars /\ WF_vars(NextHash)

----------------------------------------------------------------------------
(* Properties *)

Statuses == {"MATCH", "MISMATCH", "UNKNOWN"}

Compared == pc = "done" /\ exitCode = <<0>> /\ arguments.compare

\* C1: once checkHashes has returned, every row carries exactly one of the
\* three statuses, decided by the row and the map alone: UNKNOWN iff its
\* filename is no key of the map, MATCH iff it is a key whose value equals
\* the row's hash, MISMATCH iff it is a key whose value differs; and the
\* rows checkHashes is given always have the keys it reads, so it cannot fail
ClassificationIsTotalAndExact ==
    /\ \A i \in DOMAIN fileHashRows :
          {"filename", "hash"} \subseteq DOMAIN fileHashRows[i]
    /\ Compared =>
         \A i \in DOMAIN fileHashRows :
            LET row   == fileHashRows[i]
                known == row.filename \in DOMAIN hashRows
            IN  /\ "status" \in DOMAIN row
                /\ row.status \in Statuses
                /\ (row.status = "UNKNOWN") <=> ~known
                /\ (row.status = "MATCH") <=>
                       (known /\ hashRows[row.filename] = row.hash)
                /\ (row.status = "MISMATCH") <=>
                       (known /\ hashRows[row.filename] # row.hash)

\* a compared run with a MISMATCH row and an UNKNOWN row
WitnessClassification ==
    /\ Compared
    /\ \E i, j \in DOMAIN fileHashRows :
          /\ fileHashRows[i].status = "MISMATCH"
          /\ fileHashRows[j].status = "UNKNOWN"

\* the two paths differ only in the final extension of the file name
SameButExtension(p, q) ==
    /\ Len(p) = Len(q)
    /\ SubSeq(p, 1, Len(p) - 1) = SubSeq(q, 1, Len(q) - 1)
    /\ RSplitDotFirst(p[Len(p)]) = RSplitDotFirst(q[Len(q)])

\* the reference files read in this run that pair with executable e
LoadedReferencesOf(e) ==
    { loaded[k] : k \in { n \in DOMAIN loaded : SameButExtension(e, loaded[n]) } }

\* C2: for an executable and a reference file of the same run whose paths
\* differ only in the final extension, the row's filename is a key of the
\* reference map and what is stored under it is the content of such a
\* reference file, in absolute and in relative mode; with compare on the row
\* is MATCH iff that content equals the row's hash and MISMATCH iff it
\* differs, and it is UNKNOWN when no such reference file was discovered
KeysAgree ==
    (pc = "done" /\ exitCode = <<0>>) =>
      \A i \in DOMAIN hashed :
         LET e   == hashed[i]
             row == fileHashRows[i]
         IN  /\ LoadedReferencesOf(e) # {} =>
                  /\ row.filename \in DOMAIN hashRows
                  /\ hashRows[row.filename] \in
                        { tree[t].text : t \in LoadedReferencesOf(e) }
                  /\ arguments.compare =>
                        /\ (row.status = "MATCH") <=>
                               (hashRows[row.filename] = row.hash)
                        /\ (row.status = "MISMATCH") <=>
                               (hashRows[row.filename] # row.hash)
             /\ (/\ arguments.compare
                 /\ ~\E k \in DOMAIN txtSorted : SameButExtension(e, txtSorted[k]))
                   => row.status = "UNKNOWN"

\* a compared run in absolute mode that matched x.exe in the subdirectory
\* against x.txt
WitnessKeysAgree ==
    /\ Compared
    /\ arguments.absolute_paths
    /\ \E i \in DOMAIN hashed :
          /\ Len(hashed[i]) > Len(RootParts) + 1
          /\ LoadedReferencesOf(hashed[i]) # {}
          /\ fileHashRows[i].status = "MATCH"

\* C3: the filename of a row is filePath cut before its last "." when it
\* has one, and filePath itself when it has none, whatever the other
\* arguments are
FilenameIsPathWithoutLastExtension ==
    rowOut # None =>
      LET key == rowOut[1].filename
          fp  == rowIn.filePath
      IN  IF \E i \in DOMAIN fp : fp[i] = "."
          THEN \E rest \in FilePaths :
                  /\ fp = key \o <<".">> \o rest
                  /\ \A j \in DOMAIN rest : rest[j] # "."
          ELSE key = fp

\* a row built from a path with two dots and a filename that keeps the first
WitnessFilename ==
    /\ rowOut # None
    /\ Cardinality({ i \in DOMAIN rowIn.filePath : rowIn.filePath[i] = "." }) = 2
    /\ \E i \in DOMAIN rowOut[1].filename : rowOut[1].filename[i] = "."

\* the command line names a bad root or an unsupported algorithm
BadPrecondition ==
    ~host.rootIsDir \/ arguments.algo \notin SupportedAlgorithms

\* C4: with a root that is no directory or an unsupported algorithm, main
\* never reaches discovery, hashing or reference loading, prints no result
\* line, writes no CSV and no JSON file, and ends with one error reported
\* and exit code 2
BadPreconditionStopsBeforeScan ==
    BadPrecondition =>
      /\ pc \in {"start", "done"}
      /\ exeSorted = <<>> /\ txtSorted = <<>>
      /\ hashed = <<>> /\ loaded = <<>> /\ failed = {} /\ skipped = {}
      /\ fileHashRows = <<>> /\ hashRows = <<>>
      /\ stdout = <<>>
      /\ csvFile = Absent /\ jsonFile = Absent
      /\ pc = "done" => (exitCode = <<2>> /\ Len(stderr) = 1)
      /\ pc = "start" => (exitCode = None /\ stderr = <<>>)

\* a finished run on a good root holding an executable, with an unsupported
\* algorithm and both reports requested
WitnessBadPrecondition ==
    /\ pc = "done"
    /\ host.rootIsDir
    /\ arguments.algo \notin SupportedAlgorithms
    /\ arguments.csv /\ arguments.json
    /\ iterateExeFiles(DOMAIN tree, arguments.recursive, Flavour) # {}
    /\ exitCode = <<2>>

\* a run whose preconditions held and that ended with no result record
EndedEmpty ==
    pc = "done" /\ ~BadPrecondition /\ fileHashRows = <<>>

NoFilesFound == [kind |-> "no_exe_files_found"]

\* C5 as claimed: a run with zero records ends with exit code 0, prints the
\* "no files found" line, and writes an empty report to every requested path
EmptyRunStillWritesReports ==
    EndedEmpty =>
      /\ exitCode = <<0>>
      /\ stdout = <<NoFilesFound>>
      /\ arguments.csv => csvFile.exists
      /\ arguments.json => jsonFile.exists

\* C5 as amended: a run with zero records ends with exit code 0, prints the
\* "no files found" line and nothing else, and writes neither a CSV nor a
\* JSON file, whether or not one was requested
EmptyRunWritesNoReport ==
    EndedEmpty =>
      /\ exitCode = <<0>>
      /\ stdout = <<NoFilesFound>>
      /\ csvFile = Absent
      /\ jsonFile = Absent

\* a run that found an executable, could not hash it, and ended empty with
\* both reports requested
WitnessEmptyRun ==
    /\ EndedEmpty
    /\ arguments.csv /\ arguments.json
    /\ exeSorted # <<>>

\* the position of x in the list s
IndexOf(s, x) == CHOOSE i \in DOMAIN s : s[i] = x

\* neither path is less than the other: sorted() cannot tell them apart
PathTie(p, q) == ~PathLess(p, q, Flavour) /\ ~PathLess(q, p, Flavour)

FilePathOf(path) ==
    filePathForOutput(path, RootParts, arguments.absolute_paths, Flavour)

\* the message io.emitError was given for a path that raised
ErrorMessageFor(path) ==
    [kind |-> IF IsExePath(path) THEN "hashing" ELSE "reading",
     path |-> FilePathOf(path)]

StatusIffCompare ==
    /\ \A k \in DOMAIN stdout :
          stdout[k].kind = "row" =>
             (("status" \in DOMAIN stdout[k]) <=> arguments.compare)
    /\ csvFile.exists =>
          /\ ("status" \in Range(csvFile.fieldnames)) <=> arguments.compare
          /\ Len(csvFile.records) = Len(fileHashRows)
          /\ \A k \in DOMAIN csvFile.records :
                ("status" \in DOMAIN csvFile.records[k]) <=> arguments.compare
    /\ jsonFile.exists =>
          /\ Len(jsonFile.array) = Len(fileHashRows)
          /\ \A k \in DOMAIN jsonFile.array :
                ("status" \in DOMAIN jsonFile.array[k]) <=> arguments.compare
    /\ pc = "done" =>
          \A k \in DOMAIN fileHashRows :
             ("status" \in DOMAIN fileHashRows[k]) <=> arguments.compare

\* a comparing run that wrote two records to both reports
WitnessStatusIffCompare ==
    /\ pc = "done"
    /\ arguments.compare
    /\ csvFile.exists /\ jsonFile.exists
    /\ Len(csvFile.records) >= 2 /\ Len(jsonFile.array) >= 2

\* C8 as claimed: the list buildFileHashRows returns is in ascending order
\* of the rows' file_path, and it is the list every other order in which
\* the discovery adapter can yield the files would have given
RowsAscendByFilePath ==
    (pc = "hashLoop" /\ exeQueue = <<>>) =>
       /\ \A i, j \in DOMAIN fileHashRows :
             i < j => StrLess(fileHashRows[i].file_path,
                              fileHashRows[j].file_path)
       /\ \A other \in Orders(Range(exeSorted)) :
             Sorted(other, Flavour) = exeSorted

\* C8 as amended: the list sorted() returned holds every discovered
\* executable once and is non-decreasing in pathlib's path order; the rows
\* are those of the hashed files, once each, in that order, and the console,
\* CSV and JSON list them in the same order; another discovery order changes
\* the sorted list only among paths that compare equal, which keep their
\* discovery order
RowsFollowPathOrder ==
    /\ (pc = "hashLoop" /\ exeQueue = exeSorted) =>
          /\ Range(exeSorted) =
                iterateExeFiles(DOMAIN tree, arguments.recursive, Flavour)
          /\ Len(exeSorted) = Cardinality(Range(exeSorted))
          /\ \A i, j \in DOMAIN exeSorted :
                i < j => ~PathLess(exeSorted[j], exeSorted[i], Flavour)
          /\ \A other \in Orders(Range(exeSorted)) :
                LET sorted == Sorted(other, Flavour)
                IN  /\ \A i \in DOMAIN exeSorted :
                          PathTie(sorted[i], exeSorted[i])
                    /\ \A i, j \in DOMAIN other :
                          (i < j /\ PathTie(other[i], other[j])) =>
                             IndexOf(sorted, other[i]) < IndexOf(sorted, other[j])
    /\ (pc = "hashLoop" /\ exeQueue = <<>>) =>
          LET pos == [n \in DOMAIN hashed |-> IndexOf(exeSorted, hashed[n])]
          IN  /\ Len(hashed) = Len(fileHashRows)
              /\ \A i, j \in DOMAIN hashed : i < j => pos[i] < pos[j]
              /\ \A i \in DOMAIN hashed :
                    fileHashRows[i].file_path = FilePathOf(hashed[i])
    /\ (pc = "done" /\ exitCode = <<0>>) =>
          /\ Len(stdout) >= Len(fileHashRows)
          /\ \A i \in DOMAIN fileHashRows :
                stdout[i].file_path = fileHashRows[i].file_path
          /\ csvFile.exists =>
                /\ Len(csvFile.records) = Len(fileHashRows)
                /\ \A i \in DOMAIN fileHashRows :
                      csvFile.records[i].file_path = fileHashRows[i].file_path
          /\ jsonFile.exists =>
                /\ Len(jsonFile.array) = Len(fileHashRows)
                /\ \A i \in DOMAIN fileHashRows :
                      jsonFile.array[i].file_path.value =
                         fileHashRows[i].file_path

\* a finished run that wrote both reports with two rows whose file_path
\* strings are not in ascending order
WitnessRowsFollowPathOrder ==
    /\ pc = "done"
    /\ csvFile.exists /\ jsonFile.exists
    /\ \E i, j \in DOMAIN fileHashRows :
          i < j /\ StrLess(fileHashRows[j].file_path, fileHashRows[i].file_path)

\* the key buildHashRows derives for a reference file
KeyOf(path) == RSplitDotFirst(FilePathOf(path))

\* the reference files read in this run whose key is k
LoadedWithKey(k) ==
    { n \in DOMAIN loaded : KeyOf(loaded[n]) = k }

\* C9 as claimed: under every key the map holds the content of a reference
\* file that comes after every other reference file of that key in path
\* order
LastInPathOrderWins ==
    \A k \in DOMAIN hashRows :
       \E n \in LoadedWithKey(k) :
          /\ hashRows[k] = tree[loaded[n]].text
          /\ \A m \in LoadedWithKey(k) \ {n} :
                PathLess(loaded[m], loaded[n], Flavour)

\* C9 as amended: the files are read in the order of the list sorted()
\* returned, and under every key the returned map holds the content of the
\* last file read with that key; two files with the same key compare equal as paths,
\* so the list has them in the order they were discovered
LastReadWins ==
    /\ (pc = "loadLoop" /\ txtQueue = <<>>) =>
          LET key == [n \in DOMAIN loaded |-> KeyOf(loaded[n])]
              pos == [n \in DOMAIN loaded |-> IndexOf(txtSorted, loaded[n])]
          IN  /\ \A i, j \in DOMAIN loaded : i < j => pos[i] < pos[j]
              /\ DOMAIN hashRows = { key[n] : n \in DOMAIN loaded }
              /\ \A n \in DOMAIN loaded :
                    (\A m \in DOMAIN loaded : key[m] = key[n] => m <= n) =>
                       hashRows[key[n]] = tree[loaded[n]].text
              /\ \A i, j \in DOMAIN loaded :
                    key[i] = key[j] => PathTie(loaded[i], loaded[j])
    /\ (pc = "loadLoop" /\ txtQueue = txtSorted) =>
          \A other \in Orders(Range(txtSorted)) :
             LET sorted == Sorted(other, Flavour)
             IN  \A i, j \in DOMAIN other :
                    (i < j /\ PathTie(other[i], other[j])) =>
                       IndexOf(sorted, other[i]) < IndexOf(sorted, other[j])

\* two reference files with one key and different contents were read, and
\* the map holds the content of the second
WitnessLastReadWins ==
    \E i, j \in DOMAIN loaded :
       /\ i < j
       /\ KeyOf(loaded[i]) = KeyOf(loaded[j])
       /\ tree[loaded[i]].text # tree[loaded[j]].text
       /\ hashRows[KeyOf(loaded[j])] = tree[loaded[j]].text

\* int(s) of a decimal string
RECURSIVE ParseDigits(_, _)
ParseDigits(s, acc) ==
    IF s = <<>> THEN acc
    ELSE ParseDigits(Tail(s), 10 * acc + (Ord(Head(s)) - Ord("0")))

ParseInt(s) ==
    IF s # <<>> /\ Head(s) = "-" THEN 0 - ParseDigits(Tail(s), 0)
    ELSE ParseDigits(s, 0)

\* C10 as claimed: size is a non-negative int and modified_time an int in
\* every row, and the JSON report holds them as numbers
SizeAndTimeAreIntegers ==
    /\ \A i \in DOMAIN fileHashRows :
          /\ fileHashRows[i].size.type = "int"
          /\ fileHashRows[i].size.value >= 0
          /\ fileHashRows[i].modified_time.type = "int"
    /\ jsonFile.exists =>
          \A i \in DOMAIN jsonFile.array :
             /\ jsonFile.array[i].size.json = "number"
             /\ jsonFile.array[i].modified_time.json = "number"

\* C10 as amended: size is the decimal string of the file's byte count,
\* which is not negative, and modified_time the decimal string of
\* int(st_mtime); the CSV holds these texts and the JSON report holds them
\* as strings
SizeAndTimeAreDecimalStrings ==
    /\ Len(hashed) = Len(fileHashRows)
    /\ \A i \in DOMAIN fileHashRows :
          LET row == fileHashRows[i]
              f   == tree[hashed[i]]
          IN  /\ row.size.type = "str"
              /\ row.modified_time.type = "str"
              /\ ParseInt(row.size.value) = Len(f.bytes)
              /\ ParseInt(row.size.value) >= 0
              /\ row.size.value[1] # "-"
              /\ ParseInt(row.modified_time.value) = IntOfHalves(f.mtime)
              /\ \A c \in Range(row.size.value) :
                    Ord(c) >= Ord("0") /\ Ord(c) <= Ord("9")
    /\ jsonFile.exists =>
          \A i \in DOMAIN jsonFile.array :
             /\ jsonFile.array[i].size =
                   [json |-> "string", value |-> fileHashRows[i].size.value]
             /\ jsonFile.array[i].modified_time =
                   [json |-> "string",
                    value |-> fileHashRows[i].modified_time.value]
    /\ csvFile.exists =>
          \A i \in DOMAIN csvFile.records :
             /\ csvFile.records[i].size = fileHashRows[i].size.value
             /\ csvFile.records[i].modified_time =
                   fileHashRows[i].modified_time.value

\* both reports written with a row of a file last modified before 1970 and
\* a row of a file modified after it
WitnessSizeAndTime ==
    /\ csvFile.exists /\ jsonFile.exists
    /\ \E i, j \in DOMAIN fileHashRows :
          /\ fileHashRows[i].modified_time.value = <<"-", "1">>
          /\ fileHashRows[j].modified_time.value = <<"1", "2">>
          /\ fileHashRows[j].size.value = <<"2">>

----------------------------------------------------------------------------
(* C11 *)

\* b"".join(parts)
RECURSIVE Concat(_)
Concat(parts) ==
    IF parts = <<>> THEN <<>> ELSE Head(parts) \o Concat(Tail(parts))

\* the read loop is running or has ended
InReadLoop == pc \in {"read", "returned"}

\* every call asked for has returned
HashedEveryTime == pc = "returned" /\ Len(digests) = Calls

\* while the loop runs the chunks fed so far, joined in order, are the bytes
\* before the file position, each chunk holding between 1 and chunkSize
\* bytes; once it has ended they are the whole content, the digest returned
\* is the digest of the content fed at once and the value of
\* computeFileHash, and all calls on the file returned the same digest
ChunksAreTheFileBytes ==
    InReadLoop =>
       /\ \A i \in DOMAIN chunks :
             Len(chunks[i]) >= 1 /\ Len(chunks[i]) <= hashIn.chunkSize
       /\ hasher[1].fed = Concat(chunks)
       /\ filePos # None =>
             Concat(chunks) = SubSeq(hashIn.content, 1, filePos[1])
       /\ pc = "returned" =>
             LET digest == digests[Len(digests)].hexdigest
             IN  /\ filePos = None
                 /\ Concat(chunks) = hashIn.content
                 /\ digest = HexDigest(HasherUpdate(getHasher(hashIn.algorithm),
                                                    hashIn.content))
                 /\ digest = computeFileHash(hashIn.content, hashIn.algorithm,
                                             hashIn.chunkSize)
                 /\ \A chunkSize \in ChunkSizes :
                       computeFileHash(hashIn.content, hashIn.algorithm,
                                       chunkSize) = digest
       /\ \A i, j \in DOMAIN digests : digests[i].hexdigest = digests[j].hexdigest

\* C11: for every content and chunkSize >= 1 the read loop of computeFileHash
\* ends at end-of-stream, the chunks fed to the digest joined in order are
\* exactly the file's bytes, and the digest returned is the same for every
\* chunkSize and every repeated hashing of the unchanged content with the
\* same algorithm
ReadLoopFeedsEveryByteOnce ==
    /\ []ChunksAreTheFileBytes
    /\ ~getHasherRaises(hashIn.algorithm) => <>HashedEveryTime

\* a file of several chunks whose last chunk is short was hashed twice, with
\* two different chunk sizes
WitnessReadLoop ==
    /\ HashedEveryTime
    /\ Len(chunks) >= 2
    /\ Len(chunks[Len(chunks)]) < hashIn.chunkSize
    /\ digests[1].chunkSize # digests[2].chunkSize

----------------------------------------------------------------------------
(* C12 *)

\* the last Len(TxtSuffix) characters of the name of path
ExtensionOf(path) ==
    LET name == path[Len(path)]
    IN  SubSeq(name, Len(name) - Len(TxtSuffix) + 1, Len(name))

\* the keys of the reference files read so far
LoadedKeys == { KeyOf(loaded[n]) : n \in DOMAIN loaded }

\* C12 as claimed: no two reference files that were read have the same
\* key, and the map has one entry per reference file read
KeysNeverCollide ==
    /\ \A i, j \in DOMAIN loaded :
          i # j => KeyOf(loaded[i]) # KeyOf(loaded[j])
    /\ Cardinality(DOMAIN hashRows) = Len(loaded)

\* C12 as amended: every discovered reference path ends in ".txt" up to
\* letter case, exactly so on a host whose matching is case sensitive; the
\* map has one entry per key of the files read; two files read have the
\* same key only when their display paths differ in nothing but the letter
\* case of the extension, which does not happen on a case-sensitive host,
\* where the map has one entry per file read
KeysCollideOnlyByExtensionCase ==
    /\ \A n \in DOMAIN txtSorted :
          /\ Lower(ExtensionOf(txtSorted[n])) = TxtSuffix
          /\ Flavour = "posix" => ExtensionOf(txtSorted[n]) = TxtSuffix
    /\ DOMAIN hashRows = LoadedKeys
    /\ \A i, j \in DOMAIN loaded :
          (i # j /\ KeyOf(loaded[i]) = KeyOf(loaded[j])) =>
             /\ Flavour = "windows"
             /\ ExtensionOf(loaded[i]) # ExtensionOf(loaded[j])
             /\ FilePathOf(loaded[i]) = KeyOf(loaded[i]) \o ExtensionOf(loaded[i])
             /\ FilePathOf(loaded[j]) = KeyOf(loaded[j]) \o ExtensionOf(loaded[j])
    /\ Flavour = "posix" => Cardinality(DOMAIN hashRows) = Len(loaded)

\* the run ended after reading two reference files with one key, and the
\* map has one entry for the two of them
WitnessKeysCollide ==
    /\ pc = "done"
    /\ \E i, j \in DOMAIN loaded :
          i # j /\ KeyOf(loaded[i]) = KeyOf(loaded[j])
    /\ Cardinality(DOMAIN hashRows) < Len(loaded)

====
